---- MODULE Spec2Model ----
(***************************************************************************)
(* Last-write-wins register and map of the crdt module.                    *)
(*                                                                         *)
(*   src/src/crdt/mod.rs            CRDT, CRDTExt::merge_into              *)
(*   src/src/crdt/lww/register.rs   LWWState, LWWRegister                  *)
(*   src/src/crdt/lww/map.rs        Entry, MapState, LWWMap                *)
(*                                                                         *)
(* Every Rust function is an operator that returns the object(s) it        *)
(* leaves behind (and its return value); every public operation is an      *)
(* action that applies the operator to a replica.                          *)
(***************************************************************************)
EXTENDS Integers, Sequences, FiniteSets, TLC

\* ------------------------------------------------------------------ bounds
\* Local writes stop once a register's seq reaches MaxSeq (seq is a u64 in the
\* code; the cap keeps `seq += 1` away from its overflow).
MaxSeq == 3
\* from_iter is fed at most MaxPairs pairs.
MaxPairs == 2
\* The transport holds at most MaxNet published map states.
MaxNet == 2

\* The payloads.  T and V are unconstrained type parameters: the code moves the
\* values and never inspects them, so two distinguishable ones tell every slot
\* of an operation apart.
Values == {1, 2}
Replicas == {"a", "b"}
Keys == {"x", "y"}
Peer(r) == CHOOSE o \in Replicas : o # r

\* ------------------------------------------------------------- Option<T>
None == << >>
Some(x) == << x >>
\* Option::expect / unwrap of a Some; the None case panics and is handled by
\* the callers before this is evaluated.
Unwrap(o) == o[1]
\* The unit return value of merge, and what a panicking call leaves as result.
Unit == 0

VARIABLES
    reg,        \* reg[r]: the standalone LWWRegister<T> of replica r
    live,       \* the replicas whose register has not been consumed (moved out)
    panicked,   \* an expect("register *always* holds a value") has fired
    rlast,      \* the last register operation: op, who, arg, ret, pre
    rprev,      \* the register operation before rlast
    map,        \* map[r]: the LWWMap<K, V> of replica r
    mlive,      \* the replicas whose map has not been consumed
    mlast,      \* the last map operation: op, who, key, val, ret, pre, arg
    mtwice,     \* mlast is a merge that repeats the merge just before it
    mlocal,     \* mlocal[r][k]: the last local write of key k in map r, while
                \* map r has merged nothing
    snap,       \* the portable states exchanged in a synchronisation round
    synced,     \* the replicas that have merged their peer's snapshot
    net,        \* the map states a replica has published, oldest first
    delivered   \* the positions in net that were merged, in delivery order

vars == << reg, live, panicked, rlast, rprev, map, mlive, mlast, mtwice, mlocal,
          snap, synced, net, delivered >>
regVars == << reg, live, rlast, rprev >>
mapVars == << map, mlive, mlast, mtwice, mlocal >>
syncVars == << snap, synced, net, delivered >>

\* ------------------------------------------------------------- register.rs
\* struct LWWState<T> { value: Option<T>, seq: u64 }
LWWState(value, seq) == [value |-> value, seq |-> seq]

\* A register whose state has been moved out of it.
Moved == [state |-> LWWState(None, 0)]

\* LWWState::update, with `self.value = Some(value)` forgotten.
LWWState_update_no_store(self, value) ==
    IF self.value = None
    THEN [self |-> self, old |-> Unit, panic |-> TRUE]
    ELSE [self |-> LWWState(None, self.seq + 1), old |-> Unwrap(self.value), panic |-> FALSE]

\* LWWState::update, returning the value it has just stored.
LWWState_update_ret_new(self, value) ==
    IF self.value = None
    THEN [self |-> self, old |-> Unit, panic |-> TRUE]
    ELSE [self |-> LWWState(Some(value), self.seq + 1), old |-> value, panic |-> FALSE]

\* LWWState::update: take the old value out (panic when there is none), store
\* the new one, bump seq, return the old value.
LWWState_update(self, value) ==
    IF self.value = None
    THEN [self |-> self, old |-> Unit, panic |-> TRUE]
    ELSE [self |-> LWWState(Some(value), self.seq + 1), old |-> Unwrap(self.value), panic |-> FALSE]

\* LWWRegister::new that starts the counter at 0.
LWWRegister_new_at_zero(value) == [state |-> LWWState(Some(value), 0)]

\* LWWRegister::new (and From<T>)
LWWRegister_new(value) == [state |-> LWWState(Some(value), 1)]

\* LWWRegister::value: the held value; panics on an empty slot.
LWWRegister_value(self) ==
    IF self.state.value = None
    THEN [ret |-> Unit, panic |-> TRUE]
    ELSE [ret |-> Unwrap(self.state.value), panic |-> FALSE]

\* LWWRegister::update
LWWRegister_update(self, value) ==
    LET r == LWWState_update(self.state, value)
    IN  [self |-> [state |-> r.self], old |-> r.old, panic |-> r.panic]

\* LWWRegister::take (the inherent one): moves the value out of the register.
LWWRegister_take(self) == self.state.value

\* LWWRegister::merge with the early return on `>` instead of `>=`.
LWWRegister_merge_tie_adopts(self, other) ==
    IF self.state.seq > other.seq
    THEN self
    ELSE [state |-> LWWState(other.value, self.state.seq)]

\* LWWRegister::merge without its early return.
LWWRegister_merge_always(self, other) ==
    [state |-> LWWState(other.value, self.state.seq)]

\* LWWRegister::merge written as a local update with the incoming value.
LWWRegister_merge_as_update(self, other) ==
    IF self.state.seq >= other.seq
    THEN self
    ELSE [state |-> LWWState(other.value, self.state.seq + 1)]

\* <LWWRegister as CRDT>::merge: return when self.seq >= other.seq, otherwise
\* assign other.value to self.state.value (self.state.seq is not assigned).
LWWRegister_merge(self, other) ==
    IF self.state.seq >= other.seq
    THEN self
    ELSE [state |-> LWWState(other.value, self.state.seq)]

\* <LWWRegister as CRDT>::take: the register's state.
LWWRegister_CRDT_take(self) == self.state

\* CRDTExt::merge_into for registers: other.merge(self.take())
LWWRegister_merge_into(self, other) ==
    LWWRegister_merge(other, LWWRegister_CRDT_take(self))

\* The portable states a transport can deliver: what take returns for a
\* register built by new and updates.
RegStates == { LWWState(Some(v), n) : v \in Values, n \in 1..MaxSeq }

\* ---------------------------------------------------------------- map.rs
\* enum Entry<V> { Occupied(V), Tombstoned }
Occupied(v) == [tag |-> "Occupied", v |-> v]
Tombstoned == [tag |-> "Tombstoned"]
Entries == { Occupied(v) : v \in Values } \cup { Tombstoned }

\* Entry::get
Entry_get(self) == IF self.tag = "Occupied" THEN Some(self.v) ELSE None
\* Entry::take
Entry_take(self) == IF self.tag = "Occupied" THEN Some(self.v) ELSE None
\* Entry::is_tombstoned
Entry_is_tombstoned(self) == self.tag = "Tombstoned"

\* struct MapState<K, V> { inner: HashMap<K, LWWRegister<Entry<V>>> }: the
\* HashMap is a function whose domain is the set of keys that have a register.
MapState(inner) == [inner |-> inner]
EmptyTable == [k \in {} |-> Moved]

\* LWWMap::new
LWWMap_new == [state |-> MapState(EmptyTable)]

\* The table with key k bound to register r.
Put(inner, k, r) == [j \in DOMAIN inner \cup {k} |-> IF j = k THEN r ELSE inner[j]]

\* LWWMap::get: inner.get(k).and_then(|reg| reg.value().get())
LWWMap_get(self, k) ==
    IF k \in DOMAIN self.state.inner
    THEN LET val == LWWRegister_value(self.state.inner[k])
         IN  IF val.panic
             THEN [ret |-> None, panic |-> TRUE]
             ELSE [ret |-> Entry_get(val.ret), panic |-> FALSE]
    ELSE [ret |-> None, panic |-> FALSE]

\* LWWMap::insert on one sequence shared by the whole table: every register's
\* seq is bumped by the write.
LWWMap_insert_shared_seq(self, k, v) ==
    LET bumped == [j \in DOMAIN self.state.inner |->
                      [state |-> LWWState(self.state.inner[j].state.value,
                                          self.state.inner[j].state.seq + 1)]]
    IN  IF k \in DOMAIN self.state.inner
        THEN [self |-> [state |-> MapState(Put(bumped, k,
                           [state |-> LWWState(Some(Occupied(v)),
                                               self.state.inner[k].state.seq + 1)]))],
              ret |-> Entry_take(Unwrap(self.state.inner[k].state.value)),
              panic |-> FALSE]
        ELSE [self |-> [state |-> MapState(Put(bumped, k, LWWRegister_new(Occupied(v))))],
              ret |-> None, panic |-> FALSE]

\* LWWMap::insert that reports the entry it stored instead of the displaced one.
LWWMap_insert_ret_new(self, k, v) ==
    IF k \in DOMAIN self.state.inner
    THEN LET res == LWWRegister_update(self.state.inner[k], Occupied(v))
         IN  [self |-> [state |-> MapState(Put(self.state.inner, k, res.self))],
              ret |-> IF res.panic THEN None ELSE Entry_take(Occupied(v)),
              panic |-> res.panic]
    ELSE [self |-> [state |-> MapState(Put(self.state.inner, k,
                                           LWWRegister_new(Occupied(v))))],
          ret |-> None, panic |-> FALSE]

\* LWWMap::insert: update the register of an occupied slot and convert the
\* displaced entry; put a new register into a vacant slot and return None.
LWWMap_insert(self, k, v) ==
    IF k \in DOMAIN self.state.inner
    THEN LET res == LWWRegister_update(self.state.inner[k], Occupied(v))
         IN  [self |-> [state |-> MapState(Put(self.state.inner, k, res.self))],
              ret |-> IF res.panic THEN None ELSE Entry_take(res.old),
              panic |-> res.panic]
    ELSE [self |-> [state |-> MapState(Put(self.state.inner, k,
                                           LWWRegister_new(Occupied(v))))],
          ret |-> None, panic |-> FALSE]

\* LWWMap::remove that takes the register out of the table (HashMap::remove).
LWWMap_remove_drops(self, k) ==
    IF k \in DOMAIN self.state.inner
    THEN [self |-> [state |-> MapState([j \in DOMAIN self.state.inner \ {k} |->
                                           self.state.inner[j]])],
          ret |-> Entry_take(Unwrap(self.state.inner[k].state.value)),
          panic |-> FALSE]
    ELSE [self |-> self, ret |-> None, panic |-> FALSE]

\* LWWMap::remove that returns early on a register that is already Tombstoned.
LWWMap_remove_once(self, k) ==
    IF k \in DOMAIN self.state.inner
       /\ self.state.inner[k].state.value # Some(Tombstoned)
    THEN LET res == LWWRegister_update(self.state.inner[k], Tombstoned)
         IN  [self |-> [state |-> MapState(Put(self.state.inner, k, res.self))],
              ret |-> IF res.panic THEN None ELSE Entry_take(res.old),
              panic |-> res.panic]
    ELSE [self |-> self, ret |-> None, panic |-> FALSE]

\* LWWMap::remove that records a tombstone for a key the map has no register for.
LWWMap_remove_tombstones_unknown(self, k) ==
    IF k \in DOMAIN self.state.inner
    THEN LET res == LWWRegister_update(self.state.inner[k], Tombstoned)
         IN  [self |-> [state |-> MapState(Put(self.state.inner, k, res.self))],
              ret |-> IF res.panic THEN None ELSE Entry_take(res.old),
              panic |-> res.panic]
    ELSE [self |-> [state |-> MapState(Put(self.state.inner, k,
                                           LWWRegister_new(Tombstoned)))],
          ret |-> None, panic |-> FALSE]

\* LWWMap::remove: inner.get_mut(k).and_then(|e| e.update(Tombstoned).take())
LWWMap_remove(self, k) ==
    IF k \in DOMAIN self.state.inner
    THEN LET res == LWWRegister_update(self.state.inner[k], Tombstoned)
         IN  [self |-> [state |-> MapState(Put(self.state.inner, k, res.self))],
              ret |-> IF res.panic THEN None ELSE Entry_take(res.old),
              panic |-> res.panic]
    ELSE [self |-> self, ret |-> None, panic |-> FALSE]

\* LWWMap::contains_key that only looks for a register (HashMap::contains_key).
LWWMap_contains_key_any_register(self, k) ==
    [ret |-> k \in DOMAIN self.state.inner, panic |-> FALSE]

\* LWWMap::contains_key: inner.get(k).map(|e| !e.value().is_tombstoned())
\*                            .unwrap_or(false)
LWWMap_contains_key(self, k) ==
    IF k \in DOMAIN self.state.inner
    THEN LET val == LWWRegister_value(self.state.inner[k])
         IN  IF val.panic
             THEN [ret |-> FALSE, panic |-> TRUE]
             ELSE [ret |-> ~Entry_is_tombstoned(val.ret), panic |-> FALSE]
    ELSE [ret |-> FALSE, panic |-> FALSE]

\* The vacant arm of LWWMap::merge for key k: a register is inserted when the
\* incoming register yields a value.
MergeInserts(self, other, k) ==
    /\ k \in DOMAIN other.inner
    /\ k \notin DOMAIN self.state.inner
    /\ LWWRegister_take(other.inner[k]) # None

\* LWWMap::merge whose vacant arm inserts the incoming register as it is,
\* incoming seq included.
LWWMap_merge_keeps_seq(self, other) ==
    [state |-> MapState(
        [k \in DOMAIN self.state.inner \cup
               { j \in DOMAIN other.inner : MergeInserts(self, other, j) } |->
            IF k \in DOMAIN self.state.inner
            THEN IF k \in DOMAIN other.inner
                 THEN LWWRegister_merge_into(other.inner[k], self.state.inner[k])
                 ELSE self.state.inner[k]
            ELSE other.inner[k]])]

\* LWWMap::merge without its vacant arm: keys the map has no register for are
\* skipped.
LWWMap_merge_known_only(self, other) ==
    [state |-> MapState(
        [k \in DOMAIN self.state.inner |->
            IF k \in DOMAIN other.inner
            THEN LWWRegister_merge_into(other.inner[k], self.state.inner[k])
            ELSE self.state.inner[k]])]

\* LWWMap::merge whose occupied arm writes the incoming entry as a local update.
LWWMap_merge_by_update(self, other) ==
    [state |-> MapState(
        [k \in DOMAIN self.state.inner \cup
               { j \in DOMAIN other.inner : MergeInserts(self, other, j) } |->
            IF k \in DOMAIN self.state.inner
            THEN IF k \in DOMAIN other.inner
                 THEN LWWRegister_update(self.state.inner[k],
                                         Unwrap(other.inner[k].state.value)).self
                 ELSE self.state.inner[k]
            ELSE LWWRegister_new(Unwrap(LWWRegister_take(other.inner[k])))])]

\* <LWWMap as CRDT>::merge: for every (k, v) of other.inner, merge v into the
\* register of an occupied slot, and put LWWRegister::new(entry) into a vacant
\* slot when v.take() is Some(entry).  The keys of a HashMap are distinct and
\* an iteration touches its own key only, so the loop is a map over the keys.
LWWMap_merge(self, other) ==
    [state |-> MapState(
        [k \in DOMAIN self.state.inner \cup
               { j \in DOMAIN other.inner : MergeInserts(self, other, j) } |->
            IF k \in DOMAIN self.state.inner
            THEN IF k \in DOMAIN other.inner
                 THEN LWWRegister_merge_into(other.inner[k], self.state.inner[k])
                 ELSE self.state.inner[k]
            ELSE LWWRegister_new(Unwrap(LWWRegister_take(other.inner[k])))])]

\* LWWMap::take that exports the occupied registers only.
LWWMap_take_occupied_only(self) ==
    MapState([k \in { j \in DOMAIN self.state.inner :
                          self.state.inner[j].state.value # Some(Tombstoned) } |->
                 self.state.inner[k]])

\* <LWWMap as CRDT>::take: the map's state.
LWWMap_take(self) == self.state

\* The last value paired with key k in pairs.
RECURSIVE LastValue(_, _)
LastValue(pairs, k) ==
    IF pairs[Len(pairs)][1] = k
    THEN pairs[Len(pairs)][2]
    ELSE LastValue(SubSeq(pairs, 1, Len(pairs) - 1), k)

\* LWWMap::from_iter: every pair becomes (k, LWWRegister::new(Occupied(v))) and
\* the pairs are collected into a HashMap, a later pair replacing an earlier
\* one of the same key.
LWWMap_from_iter(pairs) ==
    [state |-> MapState(
        [k \in { pairs[i][1] : i \in 1..Len(pairs) } |->
            LWWRegister_new(Occupied(LastValue(pairs, k)))])]

\* The registers a map's portable state can hold, and the portable states a
\* transport can deliver: what take returns for a map built by its operations.
MapRegs == { [state |-> LWWState(Some(e), n)] : e \in Entries, n \in 1..MaxSeq }
MapStates == UNION { { MapState(f) : f \in [D -> MapRegs] } : D \in SUBSET Keys }

\* The inputs of from_iter.
PairSeqs == UNION { [1..n -> Keys \X Values] : n \in 0..MaxPairs }


\* The local-write history of a map: per key "none" (never written), "insert"
\* or "remove" (the last local write); Merged once the map has merged a state.
Fresh == [k \in Keys |-> "none"]
Merged == [k \in Keys |-> "merged"]

\* The history after operation op on key k (v: the pairs of a from_iter).
LocalAfter(h, op, k, v) ==
    CASE op \in {"new", "take"} -> Fresh
      [] op = "from_iter" ->
             [j \in Keys |-> IF \E i \in 1..Len(v) : v[i][1] = j THEN "insert" ELSE "none"]
      [] op = "merge" -> Merged
      [] op \in {"insert", "remove"} /\ h # Merged -> [h EXCEPT ![k] = op]
      [] OTHER -> h

\* ------------------------------------------------------------------- state
NoOp == [op |-> "none", who |-> "a", arg |-> Unit, ret |-> Unit, pre |-> Moved]
NoMapOp == [op |-> "none", who |-> "a", key |-> "x", val |-> Unit, ret |-> Unit,
            pre |-> LWWMap_new, arg |-> MapState(EmptyTable)]
NoSnap == [r \in {} |-> Unit]

\* No register and no map has been constructed yet.
Init ==
    /\ reg = [r \in Replicas |-> Moved]
    /\ live = {}
    /\ panicked = FALSE
    /\ rlast = NoOp
    /\ rprev = NoOp
    /\ map = [r \in Replicas |-> LWWMap_new]
    /\ mlive = {}
    /\ mlast = NoMapOp
    /\ mtwice = FALSE
    /\ mlocal = [r \in Replicas |-> Fresh]
    /\ snap = NoSnap
    /\ synced = {}
    /\ net = << >>
    /\ delivered = << >>

\* -------------------------------------------------------- register actions
\* What every register operation leaves in the history variables.
RegDone(r, op, arg, ret) ==
    /\ rlast' = [op |-> op, who |-> r, arg |-> arg, ret |-> ret, pre |-> reg[r]]
    /\ rprev' = rlast
    /\ UNCHANGED mapVars

\* let reg = LWWRegister::new(v), in a slot that holds no live register
RegNew(r, v) ==
    /\ ~panicked /\ r \notin live
    /\ reg' = [reg EXCEPT ![r] = LWWRegister_new(v)]
    /\ live' = live \cup {r}
    /\ UNCHANGED << panicked, syncVars >>
    /\ RegDone(r, "new", v, Unit)

\* reg.value()
RegValue(r) ==
    /\ ~panicked /\ r \in live
    /\ LET res == LWWRegister_value(reg[r])
       IN  /\ panicked' = res.panic
           /\ RegDone(r, "value", Unit, res.ret)
    /\ UNCHANGED << reg, live, syncVars >>

\* reg.update(v)
RegUpdate(r, v) ==
    /\ ~panicked /\ r \in live
    /\ reg[r].state.seq < MaxSeq
    /\ LET res == LWWRegister_update(reg[r], v)
       IN  /\ reg' = [reg EXCEPT ![r] = res.self]
           /\ panicked' = res.panic
           /\ RegDone(r, "update", v, res.old)
    /\ UNCHANGED << live, syncVars >>

\* reg.merge(s), s a portable state handed over by the transport
RegMerge(r, s) ==
    /\ ~panicked /\ r \in live
    /\ reg' = [reg EXCEPT ![r] = LWWRegister_merge(reg[r], s)]
    /\ UNCHANGED << live, panicked, syncVars >>
    /\ RegDone(r, "merge", s, Unit)

\* CRDT::take(reg): consumes the register and yields its portable state
RegCRDTTake(r) ==
    /\ ~panicked /\ r \in live
    /\ reg' = [reg EXCEPT ![r] = Moved]
    /\ live' = live \ {r}
    /\ UNCHANGED << panicked, syncVars >>
    /\ RegDone(r, "crdt_take", Unit, LWWRegister_CRDT_take(reg[r]))

\* LWWRegister::take(reg): consumes the register and yields its value slot
RegTake(r) ==
    /\ ~panicked /\ r \in live
    /\ reg' = [reg EXCEPT ![r] = Moved]
    /\ live' = live \ {r}
    /\ UNCHANGED << panicked, syncVars >>
    /\ RegDone(r, "take", Unit, LWWRegister_take(reg[r]))

\* reg[r].merge_into(&mut reg[o]): consumes r, merges its state into o
RegMergeInto(r, o) ==
    /\ ~panicked /\ r \in live /\ o \in live /\ r # o
    /\ reg' = [reg EXCEPT ![o] = LWWRegister_merge_into(reg[r], reg[o]), ![r] = Moved]
    /\ live' = live \ {r}
    /\ UNCHANGED panicked
    /\ rlast' = [op |-> "merge_into", who |-> o, arg |-> LWWRegister_CRDT_take(reg[r]),
                 ret |-> Unit, pre |-> reg[o]]
    /\ rprev' = rlast
    /\ UNCHANGED << mapVars, syncVars >>

RegNext ==
    \/ \E r \in Replicas, v \in Values : RegNew(r, v)
    \/ \E r \in Replicas : RegValue(r)
    \/ \E r \in Replicas, v \in Values : RegUpdate(r, v)
    \/ \E r \in Replicas, s \in RegStates : RegMerge(r, s)
    \/ \E r \in Replicas : RegCRDTTake(r)
    \/ \E r \in Replicas : RegTake(r)
    \/ \E r \in Replicas, o \in Replicas : RegMergeInto(r, o)

\* The standalone registers under every interleaving of their operations.
Spec == Init /\ [][RegNext]_vars


\* ------------------------------------------- register synchronisation round
\* A serialised copy of replica r's portable state (what take returns for it)
\* is handed to the transport; r makes no local write after that.
RegSnapshot(r) ==
    /\ ~panicked /\ r \in live /\ r \notin DOMAIN snap
    /\ snap' = [o \in DOMAIN snap \cup {r} |->
                   IF o = r THEN LWWRegister_CRDT_take(reg[r]) ELSE snap[o]]
    /\ UNCHANGED << regVars, panicked, mapVars, synced, net, delivered >>

\* Replica r merges the snapshot of its peer, once both snapshots exist.
RegMergeSnap(r) ==
    /\ ~panicked /\ r \in live
    /\ DOMAIN snap = Replicas /\ r \notin synced
    /\ reg' = [reg EXCEPT ![r] = LWWRegister_merge(reg[r], snap[Peer(r)])]
    /\ synced' = synced \cup {r}
    /\ UNCHANGED << live, panicked, snap, net, delivered >>
    /\ RegDone(r, "merge", snap[Peer(r)], Unit)

RegSyncNext ==
    \/ \E r \in Replicas, v \in Values : r \notin DOMAIN snap /\ RegNew(r, v)
    \/ \E r \in Replicas, v \in Values : r \notin DOMAIN snap /\ RegUpdate(r, v)
    \/ \E r \in Replicas : RegSnapshot(r)
    \/ \E r \in Replicas : RegMergeSnap(r)

\* Two registers made by new, written locally, then exchanging snapshots.
SpecRegSync == Init /\ [][RegSyncNext]_vars

\* ----------------------------------------------------------- register claims
IsMerge(l) == l.op \in {"merge", "merge_into"}
Now(l) == reg[l.who].state

\* C1: a merge whose incoming seq is strictly greater than the register's
\* leaves the register with the incoming value and the incoming seq.
C1_MergeAdoptsValueAndSeq ==
    (IsMerge(rlast) /\ rlast.arg.seq > rlast.pre.state.seq)
        => (Now(rlast).value = rlast.arg.value /\ Now(rlast).seq = rlast.arg.seq)

\* C2: a merge whose incoming seq is less than or equal to the register's
\* (ties included) changes neither the register's value nor its seq.
C2_MergeLowerOrEqualIsNoOp ==
    (IsMerge(rlast) /\ rlast.arg.seq <= rlast.pre.state.seq)
        => [state |-> Now(rlast)] = rlast.pre

C2_Witness ==
    /\ rlast.op = "merge" /\ rlast.arg.seq = rlast.pre.state.seq
    /\ rlast.arg.value # rlast.pre.state.value
    /\ rlast.who \in live

\* C3 as claimed: once both registers have merged the other's snapshot, they
\* hold the same value.
C3_RegistersConverge ==
    synced = Replicas => reg["a"].state.value = reg["b"].state.value

\* C3 amended: once both registers have merged the other's snapshot, they hold
\* the same value, provided the two snapshots carry different seqs.
C3_RegistersConvergeOnDistinctSeq ==
    (synced = Replicas /\ snap["a"].seq # snap["b"].seq)
        => reg["a"].state.value = reg["b"].state.value

C3_Witness ==
    /\ synced = Replicas
    /\ snap["a"].seq # snap["b"].seq
    /\ snap["a"].value # snap["b"].value
    /\ reg["a"].state.value = reg["b"].state.value

\* Two consecutive transport merges into the same register.
TwoMerges == rlast.op = "merge" /\ rprev.op = "merge" /\ rlast.who = rprev.who

\* C5: merging two states of different seqs into a register in one order
\* leaves the value that merging them in the other order leaves.
C5_MergeOrderInsensitive ==
    (TwoMerges /\ rprev.arg.seq # rlast.arg.seq)
        => Now(rlast).value =
           LWWRegister_merge(LWWRegister_merge(rprev.pre, rlast.arg), rprev.arg).state.value

\* C6: merging the same state into a register twice in a row leaves the value
\* and seq that the first merge left.
C6_MergeIdempotent ==
    (TwoMerges /\ rprev.arg = rlast.arg) => [state |-> Now(rlast)] = rlast.pre

C6_Witness ==
    /\ TwoMerges /\ rprev.arg = rlast.arg
    /\ rprev.arg.seq > rprev.pre.state.seq
    /\ rprev.arg.value # rprev.pre.state.value
    /\ rlast.who \in live

\* C9: update(v) returns the value the register held and leaves value() = v.
C9_UpdateContract ==
    rlast.op = "update"
        => /\ ~panicked
           /\ Some(rlast.ret) = rlast.pre.state.value
           /\ LWWRegister_value([state |-> Now(rlast)]) = [ret |-> rlast.arg, panic |-> FALSE]

C9_Witness ==
    /\ rlast.op = "update" /\ ~panicked
    /\ rlast.pre.state.value # Some(rlast.arg)
    /\ rlast.ret # rlast.arg


\* ------------------------------------------------------------- map actions
\* What every map operation leaves in the history variables.
MapDone(r, op, k, v, arg, ret) ==
    /\ mlast' = [op |-> op, who |-> r, key |-> k, val |-> v, ret |-> ret,
                 pre |-> map[r], arg |-> arg]
    /\ mtwice' = (op = "merge" /\ mlast.op = "merge" /\ mlast.who = r /\ mlast.arg = arg)
    /\ mlocal' = [mlocal EXCEPT ![r] = LocalAfter(mlocal[r], op, k, v)]
    /\ UNCHANGED regVars

NoArg == MapState(EmptyTable)
SeqBelowMax(m, k) ==
    k \in DOMAIN m.state.inner => m.state.inner[k].state.seq < MaxSeq

\* let map = LWWMap::new(), in a slot that holds no live map
MapNew(r) ==
    /\ ~panicked /\ r \notin mlive
    /\ map' = [map EXCEPT ![r] = LWWMap_new]
    /\ mlive' = mlive \cup {r}
    /\ UNCHANGED << panicked, syncVars >>
    /\ MapDone(r, "new", "x", Unit, NoArg, Unit)

\* let map = LWWMap::from_iter(pairs), in a slot that holds no live map
MapFromIter(r, pairs) ==
    /\ ~panicked /\ r \notin mlive
    /\ map' = [map EXCEPT ![r] = LWWMap_from_iter(pairs)]
    /\ mlive' = mlive \cup {r}
    /\ UNCHANGED << panicked, syncVars >>
    /\ MapDone(r, "from_iter", "x", pairs, NoArg, Unit)

\* map.get(k)
MapGet(r, k) ==
    /\ ~panicked /\ r \in mlive
    /\ LET res == LWWMap_get(map[r], k)
       IN  /\ panicked' = res.panic
           /\ MapDone(r, "get", k, Unit, NoArg, res.ret)
    /\ UNCHANGED << map, mlive, syncVars >>

\* map.contains_key(k)
MapContainsKey(r, k) ==
    /\ ~panicked /\ r \in mlive
    /\ LET res == LWWMap_contains_key(map[r], k)
       IN  /\ panicked' = res.panic
           /\ MapDone(r, "contains_key", k, Unit, NoArg, res.ret)
    /\ UNCHANGED << map, mlive, syncVars >>

\* map.insert(k, v)
MapInsert(r, k, v) ==
    /\ ~panicked /\ r \in mlive
    /\ SeqBelowMax(map[r], k)
    /\ LET res == LWWMap_insert(map[r], k, v)
       IN  /\ map' = [map EXCEPT ![r] = res.self]
           /\ panicked' = res.panic
           /\ MapDone(r, "insert", k, v, NoArg, res.ret)
    /\ UNCHANGED << mlive, syncVars >>

\* map.remove(k)
MapRemove(r, k) ==
    /\ ~panicked /\ r \in mlive
    /\ SeqBelowMax(map[r], k)
    /\ LET res == LWWMap_remove(map[r], k)
       IN  /\ map' = [map EXCEPT ![r] = res.self]
           /\ panicked' = res.panic
           /\ MapDone(r, "remove", k, Unit, NoArg, res.ret)
    /\ UNCHANGED << mlive, syncVars >>

\* map.merge(s), s a portable state handed over by the transport
MapMerge(r, s) ==
    /\ ~panicked /\ r \in mlive
    /\ map' = [map EXCEPT ![r] = LWWMap_merge(map[r], s)]
    /\ UNCHANGED << mlive, panicked, syncVars >>
    /\ MapDone(r, "merge", "x", Unit, s, Unit)

\* CRDT::take(map): consumes the map and yields its portable state
MapTake(r) ==
    /\ ~panicked /\ r \in mlive
    /\ map' = [map EXCEPT ![r] = LWWMap_new]
    /\ mlive' = mlive \ {r}
    /\ UNCHANGED << panicked, syncVars >>
    /\ MapDone(r, "take", "x", Unit, NoArg, LWWMap_take(map[r]))

\* The operations on the map of replica r.
MapOps(r) ==
    \/ MapNew(r)
    \/ \E pairs \in PairSeqs : MapFromIter(r, pairs)
    \/ \E k \in Keys : MapGet(r, k)
    \/ \E k \in Keys : MapContainsKey(r, k)
    \/ \E k \in Keys, v \in Values : MapInsert(r, k, v)
    \/ \E k \in Keys : MapRemove(r, k)
    \/ \E s \in MapStates : MapMerge(r, s)
    \/ MapTake(r)

MapNext == MapOps("a")

\* One map under every interleaving of its operations, merging every portable
\* state a peer can send.
SpecMap == Init /\ [][MapNext]_vars

\* The registers and the maps share no state: a run of the library works on
\* the standalone registers or on a map.
LibNext ==
    \/ mlast.op = "none" /\ RegNext
    \/ rlast.op = "none" /\ MapNext

SpecLib == Init /\ [][LibNext]_vars

\* ------------------------------------------------ map synchronisation round
\* A serialised copy of replica r's portable state is handed to the transport;
\* r makes no local write after that.
MapSnapshot(r) ==
    /\ ~panicked /\ r \in mlive /\ r \notin DOMAIN snap
    /\ snap' = [o \in DOMAIN snap \cup {r} |->
                   IF o = r THEN LWWMap_take(map[r]) ELSE snap[o]]
    /\ UNCHANGED << regVars, panicked, mapVars, synced, net, delivered >>

\* Replica r merges the snapshot of its peer, once both snapshots exist.
MapMergeSnap(r) ==
    /\ ~panicked /\ r \in mlive
    /\ DOMAIN snap = Replicas /\ r \notin synced
    /\ map' = [map EXCEPT ![r] = LWWMap_merge(map[r], snap[Peer(r)])]
    /\ synced' = synced \cup {r}
    /\ UNCHANGED << mlive, panicked, snap, net, delivered >>
    /\ MapDone(r, "merge", "x", Unit, snap[Peer(r)], Unit)

MapSyncNext ==
    \/ \E r \in Replicas : r \notin DOMAIN snap /\ MapNew(r)
    \/ \E r \in Replicas, k \in Keys, v \in Values :
           r \notin DOMAIN snap /\ MapInsert(r, k, v)
    \/ \E r \in Replicas, k \in Keys : r \notin DOMAIN snap /\ MapRemove(r, k)
    \/ \E r \in Replicas : MapSnapshot(r)
    \/ \E r \in Replicas : MapMergeSnap(r)

\* Two maps made by new, written locally, then exchanging snapshots.
SpecMapSync == Init /\ [][MapSyncNext]_vars


\* ------------------------------------------------- out-of-order delivery
\* Replica r hands a serialised copy of its portable state to the transport.
MapPublish(r) ==
    /\ ~panicked /\ r \in mlive /\ Len(net) < MaxNet
    /\ net' = Append(net, LWWMap_take(map[r]))
    /\ UNCHANGED << regVars, panicked, mapVars, snap, synced, delivered >>

\* Replica r merges the i-th published state, whatever was delivered before.
MapDeliver(r, i) ==
    /\ ~panicked /\ r \in mlive
    /\ \A j \in 1..Len(delivered) : delivered[j] # i
    /\ map' = [map EXCEPT ![r] = LWWMap_merge(map[r], net[i])]
    /\ delivered' = Append(delivered, i)
    /\ UNCHANGED << mlive, panicked, snap, synced, net >>
    /\ MapDone(r, "merge", "x", Unit, net[i], Unit)

\* Map a writes key x and publishes its states; map b, made by new, only
\* merges what a published, in any order.
StaleNext ==
    \/ \E r \in Replicas : MapNew(r)
    \/ \E v \in Values : MapInsert("a", "x", v)
    \/ MapRemove("a", "x")
    \/ MapPublish("a")
    \/ \E i \in 1..Len(net) : MapDeliver("b", i)

SpecStale == Init /\ [][StaleNext]_vars

\* ---------------------------------------------------------------- map claims
Inner(r) == map[r].state.inner
Get(r, k) == LWWMap_get(map[r], k).ret

\* Both snapshots hold a register for k, at the same seq.
TiedInSnapshots(k) ==
    /\ k \in DOMAIN snap["a"].inner /\ k \in DOMAIN snap["b"].inner
    /\ snap["a"].inner[k].state.seq = snap["b"].inner[k].state.seq

\* C4 as claimed: once both maps have merged the other's snapshot, get(k)
\* agrees on every key.
C4_MapsConverge ==
    synced = Replicas => \A k \in Keys : Get("a", k) = Get("b", k)

\* C4 amended: once both maps have merged the other's snapshot, get(k) agrees
\* on every key that the two snapshots do not both hold at the same seq.
C4_MapsConvergeOnUntiedKeys ==
    synced = Replicas
        => \A k \in Keys : ~TiedInSnapshots(k) => Get("a", k) = Get("b", k)

\* One key is held by both maps at different seqs with different entries, the
\* other key by one map only.
C4_Witness ==
    /\ synced = Replicas
    /\ \E k \in DOMAIN snap["a"].inner \cap DOMAIN snap["b"].inner :
           /\ snap["a"].inner[k].state.seq # snap["b"].inner[k].state.seq
           /\ snap["a"].inner[k].state.value # snap["b"].inner[k].state.value
    /\ \E k \in Keys :
           /\ k \in DOMAIN snap["a"].inner /\ k \notin DOMAIN snap["b"].inner
           /\ Get("b", k) # None

\* C7: merging the same portable state into a map twice in a row leaves every
\* key with the entry and seq that the first merge left.
C7_MapMergeIdempotent ==
    (mlast.op = "merge" /\ mtwice) => map[mlast.who] = mlast.pre

\* The repeated state holds a tombstoned key, and a key whose incoming seq is
\* above the seq that the first merge left in the map.
C7_Witness ==
    /\ mlast.op = "merge" /\ mtwice /\ mlast.who \in mlive
    /\ \E k \in DOMAIN mlast.arg.inner :
           mlast.arg.inner[k].state.value = Some(Tombstoned)
    /\ \E k \in DOMAIN mlast.arg.inner :
           /\ mlast.arg.inner[k].state.seq > mlast.pre.state.inner[k].state.seq
           /\ mlast.pre.state.inner[k].state.seq = 1

\* C8: no live register, standalone or inside a live map, has an empty value
\* slot, no portable state produced by take has one, and no
\* expect("register *always* holds a value") has fired.
C8_LiveRegisterHoldsValue ==
    /\ ~panicked
    /\ \A r \in live : reg[r].state.value # None
    /\ \A r \in mlive : \A k \in DOMAIN Inner(r) : Inner(r)[k].state.value # None
    /\ rlast.op = "crdt_take" => rlast.ret.value # None
    /\ rlast.op = "merge_into" => rlast.arg.value # None
    /\ mlast.op = "take" =>
           \A k \in DOMAIN mlast.ret.inner : mlast.ret.inner[k].state.value # None

\* A map has been written, has merged a state into an existing and into a new
\* register, and has been taken.
C8_Witness ==
    /\ mlast.op = "take"
    /\ \E k \in DOMAIN mlast.ret.inner :
           /\ mlast.ret.inner[k].state.value = Some(Tombstoned)
           /\ mlast.ret.inner[k].state.seq = 1
    /\ \E k \in DOMAIN mlast.ret.inner : mlast.ret.inner[k].state.seq = MaxSeq

\* C10: insert(k, v) returns None and creates Occupied(v) at seq 1 when k has
\* no register; returns Some(old) when k's register held Occupied(old); returns
\* None when it held Tombstoned; in the last two cases the seq grows by one;
\* in all cases get(k) is Some(v) afterwards.
C10_InsertContract ==
    mlast.op = "insert" =>
        LET k == mlast.key
            pre == mlast.pre.state.inner
            now == Inner(mlast.who)
        IN  /\ ~panicked
            /\ k \in DOMAIN now
            /\ now[k].state.value = Some(Occupied(mlast.val))
            /\ Get(mlast.who, k) = Some(mlast.val)
            /\ k \notin DOMAIN pre => (mlast.ret = None /\ now[k].state.seq = 1)
            /\ k \in DOMAIN pre => now[k].state.seq = pre[k].state.seq + 1
            /\ \A old \in Values :
                   (k \in DOMAIN pre /\ pre[k].state.value = Some(Occupied(old)))
                       => mlast.ret = Some(old)
            /\ (k \in DOMAIN pre /\ pre[k].state.value = Some(Tombstoned))
                   => mlast.ret = None

\* An insert over an occupied register that held another value.
C10_Witness ==
    /\ mlast.op = "insert" /\ mlast.key \in DOMAIN mlast.pre.state.inner
    /\ mlast.ret # None /\ mlast.ret # Some(mlast.val)
    /\ Get(mlast.who, mlast.key) = Some(mlast.val)

\* C11: remove(k) on a key without a register returns None and leaves the map
\* unchanged; on a key with a register it leaves that register Tombstoned and
\* returns Some(old) if it held Occupied(old), None if it was Tombstoned.
C11_RemoveContract ==
    mlast.op = "remove" =>
        LET k == mlast.key
            pre == mlast.pre.state.inner
            now == Inner(mlast.who)
        IN  /\ ~panicked
            /\ k \notin DOMAIN pre => (mlast.ret = None /\ map[mlast.who] = mlast.pre)
            /\ k \in DOMAIN pre =>
                   (k \in DOMAIN now /\ now[k].state.value = Some(Tombstoned))
            /\ \A old \in Values :
                   (k \in DOMAIN pre /\ pre[k].state.value = Some(Occupied(old)))
                       => mlast.ret = Some(old)
            /\ (k \in DOMAIN pre /\ pre[k].state.value = Some(Tombstoned))
                   => mlast.ret = None

\* A remove of a key the map has never seen, in a map that holds another key.
C11_Witness ==
    /\ mlast.op = "remove" /\ mlast.who \in mlive
    /\ mlast.key \notin DOMAIN mlast.pre.state.inner
    /\ mlast.pre.state.inner # EmptyTable
    /\ mlast.key \notin DOMAIN Inner(mlast.who)

\* The operations that work on a map in place.
InPlace == {"get", "contains_key", "insert", "remove", "merge"}

\* C13: an operation on a map never takes a register out of its table: every
\* key that had a register before insert, remove, merge, get or contains_key
\* has one afterwards, and remove leaves the key's register Tombstoned.
C13_RegistersAreNeverDropped ==
    mlast.op \in InPlace =>
        /\ DOMAIN mlast.pre.state.inner \subseteq DOMAIN Inner(mlast.who)
        /\ (mlast.op = "remove" /\ mlast.key \in DOMAIN mlast.pre.state.inner)
               => Inner(mlast.who)[mlast.key].state.value = Some(Tombstoned)

\* A remove of an occupied key, in a table that holds both keys afterwards.
C13_Witness ==
    /\ mlast.op = "remove" /\ mlast.ret # None
    /\ DOMAIN Inner(mlast.who) = Keys
    /\ Get(mlast.who, mlast.key) = None

\* C14: after merge(s), a key of s that had a register holds the result of the
\* register merge of s's state into it, a key of s that had none holds the
\* incoming entry at seq 1, and a key absent from s is unchanged.
C14_MergePerKey ==
    mlast.op = "merge" =>
        LET pre == mlast.pre.state.inner
            arg == mlast.arg.inner
            now == Inner(mlast.who)
        IN  /\ DOMAIN now = DOMAIN pre \cup DOMAIN arg
            /\ \A k \in DOMAIN arg \cap DOMAIN pre :
                   now[k] = LWWRegister_merge(pre[k], arg[k].state)
            /\ \A k \in DOMAIN arg \ DOMAIN pre :
                   now[k] = [state |-> LWWState(arg[k].state.value, 1)]
            /\ \A k \in DOMAIN pre \ DOMAIN arg : now[k] = pre[k]

\* One key of the state is new to the map and arrives Tombstoned at a seq
\* above 1; the other had a register at a lower seq.
C14_Witness ==
    /\ mlast.op = "merge" /\ mlast.who \in mlive
    /\ \E k \in DOMAIN mlast.arg.inner \ DOMAIN mlast.pre.state.inner :
           /\ mlast.arg.inner[k].state.seq > 1
           /\ mlast.arg.inner[k].state.value = Some(Tombstoned)
           /\ Inner(mlast.who)[k].state.seq = 1
    /\ \E k \in DOMAIN mlast.arg.inner \cap DOMAIN mlast.pre.state.inner :
           /\ mlast.arg.inner[k].state.seq > mlast.pre.state.inner[k].state.seq
           /\ mlast.arg.inner[k].state.value # mlast.pre.state.inner[k].state.value

\* C15: take exports one register state per key of the table, tombstoned keys
\* included, each with the key's entry and seq.
C15_TakeKeepsTombstones ==
    mlast.op = "take" =>
        /\ DOMAIN mlast.ret.inner = DOMAIN mlast.pre.state.inner
        /\ \A k \in DOMAIN mlast.pre.state.inner :
               mlast.ret.inner[k].state = mlast.pre.state.inner[k].state

\* The map taken holds a tombstoned and an occupied key.
C15_Witness ==
    /\ mlast.op = "take"
    /\ \E k \in DOMAIN mlast.pre.state.inner :
           mlast.pre.state.inner[k].state.value = Some(Tombstoned)
    /\ \E k \in DOMAIN mlast.pre.state.inner :
           mlast.pre.state.inner[k].state.value # Some(Tombstoned)

\* Key k has the same register, or the same lack of one, as before mlast.
Untouched(k) ==
    /\ k \in DOMAIN Inner(mlast.who) <=> k \in DOMAIN mlast.pre.state.inner
    /\ k \in DOMAIN mlast.pre.state.inner
           => Inner(mlast.who)[k] = mlast.pre.state.inner[k]

\* C18: insert(k, v) and remove(k) leave the register of every other key
\* unchanged, and merge(s) leaves the register of every key absent from s
\* unchanged.
C18_KeysAreIndependent ==
    /\ mlast.op \in {"insert", "remove"}
           => \A k2 \in Keys \ {mlast.key} : Untouched(k2)
    /\ mlast.op = "merge"
           => \A k2 \in Keys \ DOMAIN mlast.arg.inner : Untouched(k2)

\* An insert that bumps its key's seq while the other key has a register.
C18_Witness ==
    /\ mlast.op = "insert" /\ mlast.key \in DOMAIN mlast.pre.state.inner
    /\ \E k2 \in DOMAIN mlast.pre.state.inner \ {mlast.key} :
           Inner(mlast.who)[k2].state.seq < Inner(mlast.who)[mlast.key].state.seq

\* C19: remove(k) on a register at seq n leaves it Tombstoned at seq n + 1,
\* whether it was Occupied or Tombstoned; a state merged into a Tombstoned
\* register at seq q leaves it Tombstoned when its seq is at most q and
\* overwrites the tombstone with the incoming entry when its seq is above q.
C19_DeleteIsAWrite ==
    LET pre == mlast.pre.state.inner
        now == Inner(mlast.who)
    IN  /\ (mlast.op = "remove" /\ mlast.key \in DOMAIN pre)
               => now[mlast.key].state =
                  LWWState(Some(Tombstoned), pre[mlast.key].state.seq + 1)
        /\ mlast.op = "merge"
               => \A k \in DOMAIN pre \cap DOMAIN mlast.arg.inner :
                      pre[k].state.value = Some(Tombstoned)
                          => IF mlast.arg.inner[k].state.seq <= pre[k].state.seq
                             THEN now[k] = pre[k]
                             ELSE now[k].state.value = mlast.arg.inner[k].state.value

\* A remove of a key that was already Tombstoned.
C19_Witness ==
    /\ mlast.op = "remove" /\ mlast.key \in DOMAIN mlast.pre.state.inner
    /\ mlast.pre.state.inner[mlast.key].state.value = Some(Tombstoned)
    /\ Inner(mlast.who)[mlast.key].state.seq
           = mlast.pre.state.inner[mlast.key].state.seq + 1

\* C17: new(v) yields value v at seq 1, so new(v).take() is {Some(v), 1};
\* update raises seq by exactly 1; a live register's seq is at least 1; and no
\* update, merge or read lowers it.
C17_SeqIsALocalWriteCounter ==
    /\ \A r \in live : reg[r].state.seq >= 1
    /\ rlast.op = "new" => Now(rlast) = LWWState(Some(rlast.arg), 1)
    /\ rlast.op = "update" => Now(rlast).seq = rlast.pre.state.seq + 1
    /\ rlast.op \in {"merge", "merge_into", "value"}
           => Now(rlast).seq >= rlast.pre.state.seq
    /\ (rlast.op = "crdt_take" /\ rprev.op = "new" /\ rprev.who = rlast.who)
           => rlast.ret = LWWState(Some(rprev.arg), 1)

\* new(v).take()
C17_Witness ==
    /\ rlast.op = "crdt_take" /\ rprev.op = "new" /\ rprev.who = rlast.who
    /\ rlast.ret.seq = 1 /\ rlast.ret.value = Some(rprev.arg)

\* Key k of map r was never written, or was last removed, and r merged nothing.
LocallyAbsent(r, k) == mlocal[r][k] \in {"none", "remove"}

\* C12: in a map that has only seen local inserts and removes, a key never
\* inserted or last removed has get = None and contains_key = false; and in
\* every state contains_key(k) is true exactly when get(k) is Some, exactly
\* when k has a register that is Occupied.
C12_ReadContract ==
    /\ \A r \in mlive, k \in Keys :
           LET get == LWWMap_get(map[r], k)
               has == LWWMap_contains_key(map[r], k)
           IN  /\ ~get.panic /\ ~has.panic
               /\ LocallyAbsent(r, k) => (get.ret = None /\ has.ret = FALSE)
               /\ has.ret <=> get.ret # None
               /\ has.ret <=> (/\ k \in DOMAIN Inner(r)
                               /\ \E v \in Values :
                                      Inner(r)[k].state.value = Some(Occupied(v)))
    /\ (mlast.op = "get" /\ LocallyAbsent(mlast.who, mlast.key)) => mlast.ret = None
    /\ (mlast.op = "contains_key" /\ LocallyAbsent(mlast.who, mlast.key))
           => mlast.ret = FALSE

\* contains_key of a key that was inserted and then removed.
C12_Witness ==
    /\ mlast.op = "contains_key" /\ mlast.ret = FALSE
    /\ mlocal[mlast.who][mlast.key] = "remove"
    /\ mlast.key \in DOMAIN Inner(mlast.who)

\* Map b has merged exactly two published states, the later one first, and
\* both hold key k, the earlier one at a seq above 1 and below the later one's.
NewerThenOlder(k) ==
    /\ Len(delivered) = 2 /\ delivered[1] > delivered[2]
    /\ k \in DOMAIN net[delivered[1]].inner /\ k \in DOMAIN net[delivered[2]].inner
    /\ 1 < net[delivered[2]].inner[k].state.seq
    /\ net[delivered[2]].inner[k].state.seq < net[delivered[1]].inner[k].state.seq

\* C16: when a map with no register for k merges a state that holds k at seq
\* n > 2 and then an older state of the same map that holds k at seq j,
\* 1 < j < n, it ends with the older state's entry for k.
C16_StaleStateOverwrites ==
    \A k \in Keys :
        NewerThenOlder(k)
            => Inner("b")[k].state.value = net[delivered[2]].inner[k].state.value

\* Map b returns the old value of x, map a the new one.
C16_Witness ==
    /\ NewerThenOlder("x")
    /\ \E old \in Values, new \in Values :
           /\ old # new
           /\ net[delivered[2]].inner["x"].state.value = Some(Occupied(old))
           /\ net[delivered[1]].inner["x"].state.value = Some(Occupied(new))
           /\ Get("b", "x") = Some(old)
           /\ Get("a", "x") = Some(new)

====
